---- MODULE Spec2Model ----
(***************************************************************************)
(* MockupAI Studio: the session orchestrator (the App component) and the   *)
(* generation client (geminiService), as a state machine.                  *)
(*                                                                         *)
(* A JavaScript string is a sequence of tokens; the token " " is a         *)
(* whitespace character and "," is a comma, every other token is a run of  *)
(* characters holding neither.  A nullable string is a record with a null  *)
(* flag.  React commits the state updates of an event handler before the   *)
(* next event is dispatched, so one action is one handler run up to its    *)
(* first await, or one continuation after an await.                        *)
(***************************************************************************)
EXTENDS Integers, Sequences, FiniteSets, TLC

\* ---------------------------------------------------------------- bounds
\* Accepted submissions explored in one session.
MaxRequests == 2

\* ------------------------------------------------------- strings, values
Null == [null |-> TRUE, str |-> <<>>]
Str(s) == [null |-> FALSE, str |-> s]
\* JavaScript truthiness of a nullable string: null and "" are falsy.
Falsy(x) == x.null \/ x.str = <<>>
Undefined == <<"undefined">>

RECURSIVE TrimStart(_)
TrimStart(s) == IF s # <<>> /\ Head(s) = " " THEN TrimStart(Tail(s)) ELSE s

RECURSIVE TrimEnd(_)
TrimEnd(s) ==
  IF s # <<>> /\ s[Len(s)] = " " THEN TrimEnd(SubSeq(s, 1, Len(s) - 1)) ELSE s

\* String.prototype.trim
trim(s) == TrimEnd(TrimStart(s))

\* s.split(',') : the pieces between the commas.
RECURSIVE split(_)
split(s) ==
  IF \A i \in 1..Len(s) : s[i] # ","
  THEN <<s>>
  ELSE LET k == CHOOSE i \in 1..Len(s) :
                  s[i] = "," /\ \A j \in 1..(i - 1) : s[j] # ","
       IN <<SubSeq(s, 1, k - 1)>> \o split(SubSeq(s, k + 1, Len(s)))

\* a[i] of a JavaScript array, 0-based; out of range is undefined.
At(a, i) == IF i + 1 <= Len(a) THEN a[i + 1] ELSE Undefined

\* FileReader.readAsDataURL result of a file.
DataURL(file) == <<"data:", file.type, ";base64", ",", file.data>>

\* ----------------------------------------------------------------- types
MOCKUP == "MOCKUP"
IMAGE_GEN == "IMAGE_GEN"
AppMode == {MOCKUP, IMAGE_GEN}

AspectRatio == {"1:1", "3:4", "4:3", "16:9", "9:16"}
SQUARE == "1:1"

MOCKUP_PRESETS == <<
  [id |-> "mug", name |-> "Ceramic Mug",
   promptTemplate |-> <<"Place this logo realistically on a clean white ceramic coffee mug sitting on a wooden table. Professional product photography.">>],
  [id |-> "tshirt", name |-> "T-Shirt",
   promptTemplate |-> <<"A high quality photo of a folded black cotton t-shirt with this design printed on the center chest. Studio lighting.">>],
  [id |-> "hoodie", name |-> "Hoodie",
   promptTemplate |-> <<"A model wearing a grey streetwear hoodie featuring this logo prominently on the front. Urban setting.">>],
  [id |-> "tote", name |-> "Tote Bag",
   promptTemplate |-> <<"A canvas tote bag hanging on a coat rack with this logo printed on the side. Natural lighting.">>],
  [id |-> "sticker", name |-> "Laptop Sticker",
   promptTemplate |-> <<"A die-cut vinyl sticker of this image stuck on a silver laptop cover. Close up macro shot.">>],
  [id |-> "sign", name |-> "Neon Sign",
   promptTemplate |-> <<"A glowing neon sign on a brick wall in the shape and style of this image. Night time atmosphere.">> ] >>

PresetIds == {MOCKUP_PRESETS[i].id : i \in 1..Len(MOCKUP_PRESETS)}
DefaultPrompt == <<"Place this design on a product.">>

MockupFailedMessage == "Failed to generate mockup. Please try again."
ImageFailedMessage == "Failed to generate image. Please try again."

\* ---------------------------------------------------------------- inputs
\* What the user types: empty, whitespace only, clean, padded with spaces.
PromptInputs == {<<>>, <<" ">>, <<"a">>, <<" ", "a", " ">>}
\* The files the user picks.
FileInputs == {[data |-> "L", type |-> "image/jpeg"]}
\* The preset and aspect-ratio buttons the user clicks.
PresetInputs == {"mug", "hoodie"}
AspectInputs == {"1:1", "16:9"}
\* Image payloads a model endpoint answers with: "A" first, "B" after it.

TextPart == [inlineData |-> FALSE, data |-> "text"]
ImagePart(b) == [inlineData |-> TRUE, data |-> b]
\* Responses of ai.models.generateContent: the call rejects (error), or
\* resolves with candidates (absent when hasCandidates is false), each with
\* its content parts (absent when hasParts is false).
Candidate(ps) == [hasParts |-> TRUE, parts |-> ps]
NoContent == [hasParts |-> FALSE, parts |-> <<>>]
ContentResponse(cs) == [error |-> FALSE, hasCandidates |-> TRUE, candidates |-> cs]
ContentResponses ==
  { [error |-> TRUE, hasCandidates |-> FALSE, candidates |-> <<>>],
    [error |-> FALSE, hasCandidates |-> FALSE, candidates |-> <<>>],
    ContentResponse(<<>>),
    ContentResponse(<<NoContent>>),
    ContentResponse(<<Candidate(<<>>)>>),
    ContentResponse(<<Candidate(<<TextPart>>)>>),
    ContentResponse(<<Candidate(<<ImagePart("A")>>)>>),
    ContentResponse(<<Candidate(<<ImagePart("A"), ImagePart("B")>>)>>),
    ContentResponse(<<Candidate(<<ImagePart("A"), TextPart>>)>>),
    ContentResponse(<<Candidate(<<TextPart, ImagePart("A")>>)>>),
    ContentResponse(<<Candidate(<<TextPart>>), Candidate(<<ImagePart("A")>>)>>),
    ContentResponse(<<Candidate(<<ImagePart("A")>>), Candidate(<<ImagePart("B")>>)>>) }

\* Responses of ai.models.generateImages.
ImagesResponse(imgs) == [error |-> FALSE, hasImages |-> TRUE, generatedImages |-> imgs]
ImagesResponses ==
  { [error |-> TRUE, hasImages |-> FALSE, generatedImages |-> <<>>],
    [error |-> FALSE, hasImages |-> FALSE, generatedImages |-> <<>>],
    ImagesResponse(<<>>),
    ImagesResponse(<<"A">>),
    ImagesResponse(<<"A", "B">>) }

\* No call of the generation client on its own.
NoCall == [fn |-> "none"]

\* ----------------------------------------------------------------- state
VARIABLES
  mode,                 \* useState<AppMode>
  uploadedImage,        \* useState<string | null>
  uploadedMimeType,     \* useState<string>
  prompt,               \* useState('')
  isGenerating,         \* useState(false): the busy flag
  gallery,              \* useState<GeneratedImage[]>
  selectedPreset,       \* useState<string>
  selectedAspectRatio,  \* useState<AspectRatio>
  readers,              \* files whose FileReader has not fired onloadend yet
  pending,              \* suspended handler runs, each awaiting its remote call
  alerts,               \* the messages shown with alert(), oldest first
  now,                  \* the last value Date.now() returned, in ms
  remoteCalls,          \* calls issued to the two model endpoints
  accepted,             \* submissions that passed the handler's guard
  call                  \* a call of the generation client on its own

vars == <<mode, uploadedImage, uploadedMimeType, prompt, isGenerating, gallery,
          selectedPreset, selectedAspectRatio, readers, pending, alerts, now,
          remoteCalls, accepted, call>>

Init ==
  /\ mode = MOCKUP
  /\ uploadedImage = Null
  /\ uploadedMimeType = "image/png"
  /\ prompt = <<>>
  /\ isGenerating = FALSE
  /\ gallery = <<>>
  /\ selectedPreset = "mug"
  /\ selectedAspectRatio = SQUARE
  /\ readers = {}
  /\ pending = <<>>
  /\ alerts = <<>>
  /\ now = 0
  /\ remoteCalls = 0
  /\ accepted = 0
  /\ call = NoCall

\* ------------------------------------------------------ generation client
\* generateMockup up to its await: the one call to ai.models.generateContent.
generateMockupRequest(base64Image, mimeType, promptText) ==
  [model |-> "gemini-2.5-flash-image",
   data |-> base64Image,
   mimeType |-> mimeType,
   text |-> promptText,
   responseModalities |-> <<"IMAGE">>]

\* response.candidates?.[0]?.content?.parts
firstCandidateParts(response) ==
  IF response.hasCandidates /\ Len(response.candidates) > 0
       /\ response.candidates[1].hasParts
  THEN [defined |-> TRUE, parts |-> response.candidates[1].parts]
  ELSE [defined |-> FALSE, parts |-> <<>>]

\* generateMockup after its await: the data URI it resolves with, or the
\* rejection (the catch block logs and rethrows).
generateMockup(response) ==
  IF response.error
  THEN [ok |-> FALSE, value |-> <<>>]
  ELSE LET p == firstCandidateParts(response)
       IN IF p.defined /\ Len(p.parts) > 0 /\ p.parts[1].inlineData
          THEN [ok |-> TRUE,
                value |-> <<"data:image/png;base64", ",", p.parts[1].data>>]
          ELSE [ok |-> FALSE, value |-> <<>>]

\* generateImage sending the trimmed prompt.
generateImageRequest_trimmed(promptText, aspectRatio) ==
  [model |-> "imagen-4.0-generate-001",
   prompt |-> trim(promptText),
   numberOfImages |-> 1,
   outputMimeType |-> "image/jpeg",
   aspectRatio |-> aspectRatio]

\* generateImage up to its await: the one call to ai.models.generateImages.
generateImageRequest(promptText, aspectRatio) ==
  [model |-> "imagen-4.0-generate-001",
   prompt |-> promptText,
   numberOfImages |-> 1,
   outputMimeType |-> "image/jpeg",
   aspectRatio |-> aspectRatio]

\* generateImage building its data URI with the media type of generateMockup.
generateImage_pngPrefix(response) ==
  IF response.error
  THEN [ok |-> FALSE, value |-> <<>>]
  ELSE IF response.hasImages /\ Len(response.generatedImages) > 0
       THEN [ok |-> TRUE,
             value |-> <<"data:image/png;base64", ",", response.generatedImages[1]>>]
       ELSE [ok |-> FALSE, value |-> <<>>]

\* generateImage after its await.
generateImage(response) ==
  IF response.error
  THEN [ok |-> FALSE, value |-> <<>>]
  ELSE IF response.hasImages /\ Len(response.generatedImages) > 0
       THEN [ok |-> TRUE,
             value |-> <<"data:image/jpeg;base64", ",", response.generatedImages[1]>>]
       ELSE [ok |-> FALSE, value |-> <<>>]

\* ------------------------------------------------------------- rendering
\* disabled attribute of the Generate Mockup button.
mockupButtonDisabled == Falsy(uploadedImage) \/ isGenerating

\* The Generate Image button without the busy flag in its disabled attribute.
imageButtonDisabled_promptOnly == trim(prompt) = <<>>

\* disabled attribute of the Generate Image button.
imageButtonDisabled == trim(prompt) = <<>> \/ isGenerating

\* MOCKUP_PRESETS.find(p => p.id === id)
findPreset(id) ==
  IF \E i \in 1..Len(MOCKUP_PRESETS) : MOCKUP_PRESETS[i].id = id
  THEN LET k == CHOOSE i \in 1..Len(MOCKUP_PRESETS) :
                  /\ MOCKUP_PRESETS[i].id = id
                  /\ \A j \in 1..(i - 1) : MOCKUP_PRESETS[j].id # id
       IN [found |-> TRUE, preset |-> MOCKUP_PRESETS[k]]
  ELSE [found |-> FALSE, preset |-> MOCKUP_PRESETS[1]]

\* The typed text appended to the preset template instead of overriding it.
resolvePrompt_append(text, presetId) ==
  LET template == IF findPreset(presetId).found
                  THEN findPreset(presetId).preset.promptTemplate
                  ELSE DefaultPrompt
  IN IF trim(text) = <<>> THEN template ELSE template \o <<" ">> \o trim(text)

\* The prompt handleMockupGenerate resolves from the typed text and the preset.
resolvePrompt(text, presetId) ==
  LET finalPrompt == trim(text)
  IN IF finalPrompt = <<>>
     THEN IF findPreset(presetId).found
          THEN findPreset(presetId).preset.promptTemplate
          ELSE DefaultPrompt
     ELSE finalPrompt

\* Values Date.now() can return in a continuation: the clock never runs
\* backwards, it has ticked at most once since the last continuation, and the
\* two reads of one continuation fall in the same millisecond.
DateNow == {now, now + 1}

\* --------------------------------------------------------------- handlers
\* handleFileUpload: a file was picked; its FileReader is started.
handleFileUpload(file) ==
  /\ mode = MOCKUP
  /\ readers' = readers \cup {file}
  /\ UNCHANGED <<mode, uploadedImage, uploadedMimeType, prompt, isGenerating,
                 gallery, selectedPreset, selectedAspectRatio, pending, alerts,
                 now, remoteCalls, accepted, call>>

\* reader.onloadend: reader.result is the data URL, or null when the read failed.
onloadend(file, loaded) ==
  /\ file \in readers
  /\ readers' = readers \ {file}
  /\ uploadedImage' = IF loaded THEN Str(DataURL(file)) ELSE Null
  /\ uploadedMimeType' = file.type
  /\ UNCHANGED <<mode, prompt, isGenerating, gallery, selectedPreset,
                 selectedAspectRatio, pending, alerts, now, remoteCalls, accepted,
                 call>>

\* onClick of a preset button.
presetClick(id) ==
  /\ mode = MOCKUP
  /\ selectedPreset' = id
  /\ prompt' = <<>>
  /\ UNCHANGED <<mode, uploadedImage, uploadedMimeType, isGenerating, gallery,
                 selectedAspectRatio, readers, pending, alerts, now, remoteCalls,
                 accepted, call>>

\* onChange of the prompt textarea of either panel.
promptChange(value) ==
  /\ prompt' = value
  /\ UNCHANGED <<mode, uploadedImage, uploadedMimeType, isGenerating, gallery,
                 selectedPreset, selectedAspectRatio, readers, pending, alerts,
                 now, remoteCalls, accepted, call>>

\* onClick of an aspect-ratio button.
aspectRatioClick(ratio) ==
  /\ mode = IMAGE_GEN
  /\ selectedAspectRatio' = ratio
  /\ UNCHANGED <<mode, uploadedImage, uploadedMimeType, prompt, isGenerating,
                 gallery, selectedPreset, readers, pending, alerts, now,
                 remoteCalls, accepted, call>>

\* A mode switch that also drops the uploaded image.
modeClick_dropsUpload(m) ==
  /\ mode' = m
  /\ prompt' = <<>>
  /\ uploadedImage' = Null
  /\ UNCHANGED <<uploadedMimeType, isGenerating, gallery, selectedPreset,
                 selectedAspectRatio, readers, pending, alerts, now, remoteCalls,
                 accepted, call>>

\* onClick of a Mode Switcher button.
modeClick(m) ==
  /\ mode' = m
  /\ prompt' = <<>>
  /\ UNCHANGED <<uploadedImage, uploadedMimeType, isGenerating, gallery,
                 selectedPreset, selectedAspectRatio, readers, pending, alerts,
                 now, remoteCalls, accepted, call>>

\* handleMockupGenerate up to its await.
handleMockupGenerate ==
  /\ IF Falsy(uploadedImage)
     THEN UNCHANGED <<isGenerating, pending, remoteCalls, accepted>>
     ELSE LET base64Data == At(split(uploadedImage.str), 1)
              finalPrompt == resolvePrompt(prompt, selectedPreset)
          IN /\ isGenerating' = TRUE
             /\ pending' = Append(pending,
                   [handler |-> "handleMockupGenerate",
                    prompt |-> prompt,
                    selectedPreset |-> selectedPreset,
                    finalPrompt |-> finalPrompt,
                    request |-> generateMockupRequest(base64Data,
                                   uploadedMimeType, finalPrompt)])
             /\ remoteCalls' = remoteCalls + 1
             /\ accepted' = accepted + 1
  /\ UNCHANGED <<mode, uploadedImage, uploadedMimeType, prompt, gallery,
                 selectedPreset, selectedAspectRatio, readers, alerts, now, call>>

\* handleImageGenerate guarding on !prompt instead of !prompt.trim().
handleImageGenerate_untrimmedGuard ==
  /\ IF prompt = <<>>
     THEN UNCHANGED <<isGenerating, pending, remoteCalls, accepted>>
     ELSE /\ isGenerating' = TRUE
          /\ pending' = Append(pending,
                [handler |-> "handleImageGenerate",
                 prompt |-> prompt,
                 selectedPreset |-> selectedPreset,
                 finalPrompt |-> prompt,
                 request |-> generateImageRequest(prompt, selectedAspectRatio)])
          /\ remoteCalls' = remoteCalls + 1
          /\ accepted' = accepted + 1
  /\ UNCHANGED <<mode, uploadedImage, uploadedMimeType, prompt, gallery,
                 selectedPreset, selectedAspectRatio, readers, alerts, now, call>>

\* handleImageGenerate up to its await.
handleImageGenerate ==
  /\ IF trim(prompt) = <<>>
     THEN UNCHANGED <<isGenerating, pending, remoteCalls, accepted>>
     ELSE /\ isGenerating' = TRUE
          /\ pending' = Append(pending,
                [handler |-> "handleImageGenerate",
                 prompt |-> prompt,
                 selectedPreset |-> selectedPreset,
                 finalPrompt |-> prompt,
                 request |-> generateImageRequest(prompt, selectedAspectRatio)])
          /\ remoteCalls' = remoteCalls + 1
          /\ accepted' = accepted + 1
  /\ UNCHANGED <<mode, uploadedImage, uploadedMimeType, prompt, gallery,
                 selectedPreset, selectedAspectRatio, readers, alerts, now, call>>

\* The new entry put at the end of the gallery.
prependImage_append(newImage, prev) == Append(prev, newImage)

\* setGallery([newImage]): the new entry replacing the list.
prependImage_replace(newImage, prev) == <<newImage>>

\* The updater of setGallery: prev => [newImage, ...prev].
prependImage(newImage, prev) == <<newImage>> \o prev

\* Both catch blocks alerting with the mockup message.
failureMessage_copied(handler) == MockupFailedMessage

\* The message of the alert in the catch block of a handler.
failureMessage(handler) ==
  IF handler = "handleMockupGenerate" THEN MockupFailedMessage ELSE ImageFailedMessage

\* setIsGenerating(false) at the end of the try block instead of in finally.
finallyIsGenerating_tryOnly(ok) == IF ok THEN FALSE ELSE isGenerating

\* The finally block of both handlers: setIsGenerating(false).
finallyIsGenerating(ok) == FALSE

\* pending without its i-th run.
RemoveAt(q, i) == SubSeq(q, 1, i - 1) \o SubSeq(q, i + 1, Len(q))

\* A failed image-edit call issued once more instead of being reported.
mockupSettled_retry(i, response) ==
  /\ i \in 1..Len(pending)
  /\ pending[i].handler = "handleMockupGenerate"
  /\ LET run == pending[i]
         resultImage == generateMockup(response)
     IN IF resultImage.ok
        THEN \E t \in DateNow :
               /\ gallery' = prependImage(
                     [id |-> ToString(t),
                      url |-> resultImage.value,
                      prompt |-> run.finalPrompt,
                      createdAt |-> t,
                      type |-> "mockup"], gallery)
               /\ now' = t
               /\ isGenerating' = FALSE
               /\ pending' = RemoveAt(pending, i)
               /\ UNCHANGED <<alerts, remoteCalls>>
        ELSE /\ remoteCalls <= MaxRequests
             /\ remoteCalls' = remoteCalls + 1
             /\ UNCHANGED <<gallery, now, isGenerating, pending, alerts>>
  /\ UNCHANGED <<mode, uploadedImage, uploadedMimeType, prompt, selectedPreset,
                 selectedAspectRatio, readers, accepted, call>>

\* handleMockupGenerate after its await: generateMockup settled on `response`.
mockupSettled(i, response) ==
  /\ i \in 1..Len(pending)
  /\ pending[i].handler = "handleMockupGenerate"
  /\ LET run == pending[i]
         resultImage == generateMockup(response)
     IN /\ IF resultImage.ok
           THEN \E t \in DateNow :
                  /\ gallery' = prependImage(
                        [id |-> ToString(t),
                         url |-> resultImage.value,
                         prompt |-> run.finalPrompt,
                         createdAt |-> t,
                         type |-> "mockup"], gallery)
                  /\ now' = t
                  /\ alerts' = alerts
           ELSE /\ alerts' = Append(alerts, failureMessage(run.handler))
                /\ UNCHANGED <<gallery, now>>
        /\ isGenerating' = finallyIsGenerating(resultImage.ok)
        /\ pending' = RemoveAt(pending, i)
  /\ UNCHANGED <<mode, uploadedImage, uploadedMimeType, prompt, selectedPreset,
                 selectedAspectRatio, readers, remoteCalls, accepted, call>>

\* handleImageGenerate after its await: generateImage settled on `response`.
imageSettled(i, response) ==
  /\ i \in 1..Len(pending)
  /\ pending[i].handler = "handleImageGenerate"
  /\ LET run == pending[i]
         resultImage == generateImage(response)
     IN /\ IF resultImage.ok
           THEN \E t \in DateNow :
                  /\ gallery' = prependImage(
                        [id |-> ToString(t),
                         url |-> resultImage.value,
                         prompt |-> run.prompt,
                         createdAt |-> t,
                         type |-> "generation"], gallery)
                  /\ now' = t
                  /\ alerts' = alerts
           ELSE /\ alerts' = Append(alerts, failureMessage(run.handler))
                /\ UNCHANGED <<gallery, now>>
        /\ isGenerating' = finallyIsGenerating(resultImage.ok)
        /\ pending' = RemoveAt(pending, i)
  /\ UNCHANGED <<mode, uploadedImage, uploadedMimeType, prompt, selectedPreset,
                 selectedAspectRatio, readers, remoteCalls, accepted, call>>

\* The file name downloadImage gives the link.
downloadFileName(id) == <<"mockup-ai-", id, ".png">>

\* downloadImage of the k-th gallery item: a link to its url is added to the
\* document, clicked and removed; no state of the component is set.
downloadImage(k) ==
  /\ k \in 1..Len(gallery)
  /\ LET link == [href |-> gallery[k].url,
                  download |-> downloadFileName(gallery[k].id)]
     IN link.href = gallery[k].url
  /\ UNCHANGED vars

\* A click on the Generate Mockup button: rendered in mockup mode, dead while
\* disabled.
mockupButtonClick ==
  /\ mode = MOCKUP
  /\ ~mockupButtonDisabled
  /\ accepted < MaxRequests
  /\ handleMockupGenerate

\* A click on the Generate Image button of the image panel.
imageButtonClick ==
  /\ mode = IMAGE_GEN
  /\ ~imageButtonDisabled
  /\ accepted < MaxRequests
  /\ handleImageGenerate

\* handleMockupGenerate run with no uploaded image. Its button is disabled
\* then, so this is the handler reached past the disabled attribute; it
\* returns at its guard.
mockupSubmitWithoutImage ==
  /\ Falsy(uploadedImage)
  /\ handleMockupGenerate

\* handleImageGenerate run with an empty or whitespace-only prompt.
imageSubmitWithoutPrompt ==
  /\ trim(prompt) = <<>>
  /\ handleImageGenerate

Next ==
  \/ \E file \in FileInputs : handleFileUpload(file)
  \/ \E file \in FileInputs, loaded \in BOOLEAN : onloadend(file, loaded)
  \/ \E id \in PresetInputs : presetClick(id)
  \/ \E value \in PromptInputs : promptChange(value)
  \/ \E ratio \in AspectInputs : aspectRatioClick(ratio)
  \/ \E m \in AppMode : modeClick(m)
  \/ mockupButtonClick
  \/ imageButtonClick
  \/ \E i \in 1..MaxRequests, response \in ContentResponses : mockupSettled(i, response)
  \/ \E i \in 1..MaxRequests, response \in ImagesResponses : imageSettled(i, response)
  \/ \E k \in 1..MaxRequests : downloadImage(k)
  \/ mockupSubmitWithoutImage
  \/ imageSubmitWithoutPrompt

Spec == Init /\ [][Next]_vars

\* ------------------------------------------- the generation client alone
\* generateMockup called on its own with these arguments, the endpoint
\* answering `response`.
callGenerateMockup(base64Image, mimeType, promptText, response) ==
  /\ call' = [fn |-> "generateMockup",
              request |-> generateMockupRequest(base64Image, mimeType, promptText),
              response |-> response,
              result |-> generateMockup(response)]
  /\ UNCHANGED <<mode, uploadedImage, uploadedMimeType, prompt, isGenerating,
                 gallery, selectedPreset, selectedAspectRatio, readers, pending,
                 alerts, now, remoteCalls, accepted>>

\* generateImage called on its own.
callGenerateImage(promptText, aspectRatio, response) ==
  /\ call' = [fn |-> "generateImage",
              request |-> generateImageRequest(promptText, aspectRatio),
              response |-> response,
              result |-> generateImage(response)]
  /\ UNCHANGED <<mode, uploadedImage, uploadedMimeType, prompt, isGenerating,
                 gallery, selectedPreset, selectedAspectRatio, readers, pending,
                 alerts, now, remoteCalls, accepted>>

\* Arguments of the client calls.
ClientPrompts ==
  {<<"a">>, <<" ", "a", " ">>}
    \cup {MOCKUP_PRESETS[i].promptTemplate : i \in 1..Len(MOCKUP_PRESETS)}
ClientMimeTypes == {"image/png", "image/jpeg", "image/webp"}

ClientNext ==
  \/ \E mimeType \in ClientMimeTypes, promptText \in ClientPrompts,
        response \in ContentResponses :
       callGenerateMockup("L", mimeType, promptText, response)
  \/ \E promptText \in ClientPrompts, aspectRatio \in AspectRatio,
        response \in ImagesResponses :
       callGenerateImage(promptText, aspectRatio, response)

ClientSpec == Init /\ [][ClientNext]_vars

\* ================================================================ claims

\* C1: at most one generation request, mockup or text-to-image counted
\* together, is in flight in every reachable state.
C1_AtMostOneInFlight == Len(pending) <= 1

\* C1 witness: a mockup request is pending and the user has switched to the
\* image panel and typed a prompt, so the other submit control is rendered
\* with its precondition met while busy.
C1_Witness ==
  /\ Len(pending) = 1
  /\ pending[1].handler = "handleMockupGenerate"
  /\ mode = IMAGE_GEN
  /\ trim(prompt) # <<>>
  /\ isGenerating

\* C2: the busy flag is true exactly when one request is pending, and false
\* exactly when none is.
C2_BusyIffPending ==
  /\ isGenerating <=> Len(pending) = 1
  /\ ~isGenerating <=> pending = <<>>

\* C2 witness: one request has succeeded and one has failed, and the flag is
\* false again.
C2_Witness ==
  /\ ~isGenerating
  /\ pending = <<>>
  /\ Len(gallery) = 1
  /\ Len(alerts) = 1

\* A response of the image-edit endpoint with no image part in any candidate.
NoImagePart(response) ==
  \A c \in 1..Len(response.candidates) :
    \A k \in 1..Len(response.candidates[c].parts) :
      ~response.candidates[c].parts[k].inlineData

\* C3: when the remote call of a submission fails (it errors, or the response
\* holds no image) the step that handles it alerts exactly once with that
\* operation's message, leaves the gallery as it was and clears the busy flag.
C3_FailureHandled ==
  [][ /\ Len(pending') < Len(pending)
           => /\ \A i \in 1..Len(pending), response \in ContentResponses :
                   (response.error \/ NoImagePart(response))
                     => (mockupSettled(i, response)
                           => /\ alerts' = Append(alerts, "Failed to generate mockup. Please try again.")
                              /\ gallery' = gallery
                              /\ isGenerating' = FALSE)
              /\ \A i \in 1..Len(pending), response \in ImagesResponses :
                   (response.error \/ response.generatedImages = <<>>)
                     => (imageSettled(i, response)
                           => /\ alerts' = Append(alerts, "Failed to generate image. Please try again.")
                              /\ gallery' = gallery
                              /\ isGenerating' = FALSE)
      /\ Len(alerts') > Len(alerts) => (pending' = <<>> /\ ~isGenerating')
    ]_vars

\* C3 witness: after a success, a text-to-image request has failed; its alert
\* is the only one, the gallery kept its one entry and the flag is false.
C3_Witness ==
  /\ alerts = <<ImageFailedMessage>>
  /\ Len(gallery) = 1
  /\ ~isGenerating
  /\ pending = <<>>

\* The promptTemplate of the catalog preset with this id.
TemplateOf(id) ==
  CHOOSE t \in {MOCKUP_PRESETS[i].promptTemplate : i \in 1..Len(MOCKUP_PRESETS)} :
    \E i \in 1..Len(MOCKUP_PRESETS) :
      MOCKUP_PRESETS[i].id = id /\ MOCKUP_PRESETS[i].promptTemplate = t

\* The free text with its leading and trailing whitespace removed; the
\* preset's template when nothing is left.
ResolvedTrimmed(text, presetId) ==
  IF trim(text) = <<>> THEN TemplateOf(presetId) ELSE trim(text)

\* The free text verbatim; the preset's template when it is empty.
ResolvedVerbatim(text, presetId) ==
  IF text = <<>> THEN TemplateOf(presetId) ELSE text

\* A step that starts a request of this handler: the run it adds to pending.
Started(handler) ==
  /\ Len(pending') = Len(pending) + 1
  /\ pending'[Len(pending')].handler = handler

\* A step that adds a gallery entry of this kind.
Added(kind) ==
  /\ Len(gallery') = Len(gallery) + 1
  /\ gallery'[1].type = kind

\* A mockup submission sends the prompt Resolved gives for the text and the
\* preset of the moment of submission, a pending run never changes, and the
\* entry a successful mockup run adds is of kind mockup and stores the prompt
\* that run sent.
MockupPromptStep(Resolved(_, _)) ==
  /\ selectedPreset \in PresetIds
  /\ Started("handleMockupGenerate")
       => /\ pending'[Len(pending')].request.text = Resolved(prompt, selectedPreset)
          /\ SubSeq(pending', 1, Len(pending)) = pending
  /\ Len(pending') = Len(pending) => pending' = pending
  /\ Added("mockup")
       => \E i \in 1..Len(pending) :
            /\ pending[i].handler = "handleMockupGenerate"
            /\ pending' = RemoveAt(pending, i)
            /\ gallery'[1].prompt = pending[i].request.text
  /\ (/\ Len(gallery') > Len(gallery)
      /\ \E i \in 1..Len(pending), response \in ContentResponses :
           mockupSettled(i, response))
       => gallery'[1].type = "mockup"

C5_GenerationPromptExact ==
  [][ /\ Started("handleImageGenerate")
           => /\ pending'[Len(pending')].request.prompt = prompt
              /\ SubSeq(pending', 1, Len(pending)) = pending
      /\ Added("generation")
           => \E i \in 1..Len(pending) :
                /\ pending[i].handler = "handleImageGenerate"
                /\ pending' = RemoveAt(pending, i)
                /\ gallery'[1].prompt = pending[i].request.prompt
      /\ (/\ Len(gallery') > Len(gallery)
          /\ \E i \in 1..Len(pending), response \in ImagesResponses :
               imageSettled(i, response))
           => gallery'[1].type = "generation"
    ]_vars

\* C5 witness: a generation entry stores a prompt padded with spaces, and the
\* prompt field no longer holds it.
C5_Witness ==
  /\ gallery # <<>>
  /\ gallery[1].type = "generation"
  /\ gallery[1].prompt = <<" ", "a", " ">>
  /\ prompt = <<>>
  /\ mode = MOCKUP

\* C6: every success puts its entry at index 0 and shifts the earlier entries
\* down by one in their order; nothing else changes the gallery, so the
\* gallery is in reverse order of completion.
C6_NewestFirst ==
  [][ /\ gallery' # gallery
           => /\ Len(gallery') = Len(gallery) + 1
              /\ \A k \in 1..Len(gallery) : gallery'[k + 1] = gallery[k]
              /\ Len(pending') = Len(pending) - 1
              /\ \A k \in 2..Len(gallery') :
                   gallery'[1].createdAt >= gallery'[k].createdAt
      /\ (Len(pending') < Len(pending) /\ alerts' = alerts)
           => Len(gallery') = Len(gallery) + 1
    ]_vars

\* C6 witness: a generation completed after a mockup, in a later millisecond,
\* and is at the head.
C6_Witness ==
  /\ Len(gallery) = 2
  /\ gallery[1].type = "generation"
  /\ gallery[2].type = "mockup"
  /\ gallery[1].createdAt > gallery[2].createdAt

\* C7: a click on a mode button sets the mode to the clicked one and empties
\* the prompt, and changes nothing else; the mode changes in no other way.
C7_ModeSwitchFrame ==
  [][ /\ \A m \in AppMode :
           modeClick(m)
             => /\ mode' = m
                /\ prompt' = <<>>
                /\ UNCHANGED <<uploadedImage, uploadedMimeType, gallery,
                               selectedPreset, selectedAspectRatio, isGenerating>>
      /\ mode' # mode
           => /\ prompt' = <<>>
              /\ UNCHANGED <<uploadedImage, uploadedMimeType, gallery,
                             selectedPreset, selectedAspectRatio, isGenerating>>
    ]_vars

\* C7 witness: the mode was switched while a mockup request was pending; the
\* upload, the gallery, the preset, the ratio and the busy flag are all still
\* there as set before.
C7_Witness ==
  /\ mode = IMAGE_GEN
  /\ prompt = <<>>
  /\ Len(pending) = 1
  /\ pending[1].handler = "handleMockupGenerate"
  /\ isGenerating
  /\ ~uploadedImage.null
  /\ uploadedMimeType = "image/jpeg"
  /\ Len(gallery) = 1
  /\ selectedPreset = "hoodie"

\* C8 (as stated): generateMockup returns the png data URI of the first
\* inline image part among the first candidate's parts when there is one,
\* and fails exactly when there is none or the call errors.
C8_FirstImagePartReturned ==
  call.fn = "generateMockup" =>
    LET r == call.response
        parts == IF ~r.error /\ Len(r.candidates) > 0
                 THEN r.candidates[1].parts ELSE <<>>
        images == {k \in 1..Len(parts) : parts[k].inlineData}
    IN IF images # {}
       THEN LET first == CHOOSE k \in images : \A j \in images : k <= j
            IN call.result =
                 [ok |-> TRUE,
                  value |-> <<"data:image/png;base64", ",", parts[first].data>>]
       ELSE call.result = [ok |-> FALSE, value |-> <<>>]

\* C9: generateImage returns the jpeg data URI of the first generated image
\* when the response holds one, whatever the prompt and the aspect ratio, and
\* fails with no value when the list is missing or empty or the call errors.
C9_FirstImageAsJpeg ==
  call.fn = "generateImage" =>
    LET r == call.response
    IN IF ~r.error /\ r.generatedImages # <<>>
       THEN call.result =
              [ok |-> TRUE,
               value |-> <<"data:image/jpeg;base64", ",", r.generatedImages[1]>>]
       ELSE call.result = [ok |-> FALSE, value |-> <<>>]

\* C9 witness: a 16:9 request answered with two images has succeeded.
C9_Witness ==
  /\ call.fn = "generateImage"
  /\ call.request.aspectRatio = "16:9"
  /\ Len(call.response.generatedImages) = 2
  /\ call.result.ok

\* C10: the remote calls made are as many as the accepted submissions, and
\* each is still pending or has ended once, in a gallery entry or an alert.
C10_OneCallPerSubmission ==
  /\ remoteCalls = accepted
  /\ remoteCalls = Len(pending) + Len(gallery) + Len(alerts)

\* C10 witness: a call has failed and been reported, and it was the only call.
C10_Witness ==
  /\ Len(alerts) = 1
  /\ gallery = <<>>
  /\ pending = <<>>
  /\ accepted = 1
  /\ remoteCalls = 1

\* A step in which a pending run ends with a result from its client call.
SucceededStep ==
  /\ Len(pending') < Len(pending)
  /\ \/ \E i \in 1..Len(pending), response \in ContentResponses :
          generateMockup(response).ok /\ mockupSettled(i, response)
     \/ \E i \in 1..Len(pending), response \in ImagesResponses :
          generateImage(response).ok /\ imageSettled(i, response)

\* C11: no step removes, reorders or changes a gallery entry: a step either
\* leaves the gallery as it is or adds one entry and keeps all the others,
\* fields and order; and the gallery grows exactly in the steps in which a
\* request succeeds.
C11_GalleryAppendOnly ==
  [][ /\ Len(gallery') = Len(gallery) => gallery' = gallery
      /\ Len(gallery') # Len(gallery)
           => \E j \in 1..Len(gallery') : RemoveAt(gallery', j) = gallery
      /\ Len(gallery') # Len(gallery) <=> SucceededStep
    ]_vars

\* C11 witness: the gallery holds an entry while a request has failed, the
\* mode was switched, a preset clicked, a file uploaded and a prompt typed.
C11_Witness ==
  /\ Len(gallery) = 1
  /\ Len(alerts) = 1
  /\ mode = IMAGE_GEN
  /\ selectedPreset = "hoodie"
  /\ prompt = <<"a">>
  /\ ~uploadedImage.null
  /\ pending = <<>>

\* C12: a submission whose precondition does not hold changes nothing: the
\* mockup handler run with no uploaded image and the generation handler run
\* with an empty or whitespace-only prompt leave every variable as it was (no
\* call, no busy flag, no alert, same gallery), and no step starts a request
\* from a state in which its precondition fails.
C12_RejectedSubmissionNoOp ==
  [][ /\ (Falsy(uploadedImage) /\ handleMockupGenerate) => UNCHANGED vars
      /\ (trim(prompt) = <<>> /\ handleImageGenerate) => UNCHANGED vars
      /\ Started("handleMockupGenerate") => ~uploadedImage.null
      /\ Started("handleImageGenerate") => trim(prompt) # <<>>
    ]_vars

\* C12 witness: with an entry in the gallery and a request pending, the image
\* is gone after a failed read and the prompt is one space; both handlers can
\* be run here and neither precondition holds.
C12_Witness ==
  /\ uploadedImage.null
  /\ uploadedMimeType = "image/jpeg"
  /\ prompt = <<" ">>
  /\ Len(gallery) = 1
  /\ Len(pending) = 1
  /\ isGenerating
  /\ ENABLED mockupSubmitWithoutImage
  /\ ENABLED imageSubmitWithoutPrompt
====
